---------------------------- MODULE Spec2Model ----------------------------
(***************************************************************************)
(* Model of src/inference.py: the four hooks of a vector-store endpoint    *)
(* (model_fn, input_fn, predict_fn, output_fn) and the model server that   *)
(* calls input_fn, predict_fn and output_fn once per request, for several  *)
(* requests in flight against one loaded vector store.                     *)
(*                                                                         *)
(* JSON text is modelled as the sequence of its lexical tokens; Python     *)
(* values are tagged records; a raised exception is the "raised" field of  *)
(* a call's result ("none" when the call returned).                        *)
(***************************************************************************)
EXTENDS Integers, Sequences, FiniteSets, TLC

(* ------------------------------ bounds -------------------------------- *)

\* Requests the model server has in flight against the one loaded store.
NumRequests == 2

\* The persisted stores hold 0..MaxDocs documents; k ranges over 0..MaxDocs+1.
MaxDocs == 2

Requests == 1..NumRequests

Min(a, b) == IF a <= b THEN a ELSE b

(* --------------------------- Python values ---------------------------- *)

PyStr(s) == [type |-> "str", s |-> s]
PyInt(n) == [type |-> "int", n |-> n]
PyNone == [type |-> "NoneType"]
PyList(elems) == [type |-> "list", elems |-> elems]
\* A dict keeps its items in insertion order.
PyDict(items) == [type |-> "dict", items |-> items]

Returned(v) == [raised |-> "none", ret |-> v]
Raised(e) == [raised |-> e, ret |-> PyNone]

\* d[key] = value: an existing key keeps its place, a new key goes last.
dict_setitem(d, key, value) ==
    IF \E i \in 1..Len(d.items) : d.items[i].key = key
    THEN PyDict([i \in 1..Len(d.items) |->
                   IF d.items[i].key = key
                   THEN [key |-> key, value |-> value]
                   ELSE d.items[i]])
    ELSE PyDict(Append(d.items, [key |-> key, value |-> value]))

\* obj[key] for a str key, as predict_fn's input_data['text'] evaluates it.
py_getitem(obj, key) ==
    IF obj.type = "dict"
    THEN IF \E i \in 1..Len(obj.items) : obj.items[i].key = key
         THEN Returned(obj.items[CHOOSE i \in 1..Len(obj.items) :
                                   obj.items[i].key = key].value)
         ELSE Raised("KeyError")
    ELSE Raised("TypeError")

(* ----------------------------- JSON text ------------------------------ *)

Punct(c) == [kind |-> "punct", c |-> c]
StrTok(s) == [kind |-> "string", s |-> s]
NumTok(n) == [kind |-> "number", n |-> n]
NullTok == [kind |-> "null"]
\* A run of characters that starts no JSON value, such as an unquoted word.
BareTok(w) == [kind |-> "bare", w |-> w]

LBrace == Punct("{")
RBrace == Punct("}")
LBracket == Punct("[")
RBracket == Punct("]")
Colon == Punct(":")
Comma == Punct(",")

ParseFail == [ok |-> FALSE]
Parsed(v, next) == [ok |-> TRUE, value |-> v, next |-> next]

RECURSIVE ParseValue(_, _)
RECURSIVE ParseElements(_, _, _)
RECURSIVE ParseMembers(_, _, _)

\* The JSON value that starts at token i.
ParseValue(toks, i) ==
    IF i > Len(toks) THEN ParseFail
    ELSE LET t == toks[i] IN
         CASE t.kind = "string" -> Parsed(PyStr(t.s), i + 1)
           [] t.kind = "number" -> Parsed(PyInt(t.n), i + 1)
           [] t.kind = "null" -> Parsed(PyNone, i + 1)
           [] t = LBracket ->
                IF i + 1 <= Len(toks) /\ toks[i + 1] = RBracket
                THEN Parsed(PyList(<<>>), i + 2)
                ELSE ParseElements(toks, i + 1, <<>>)
           [] t = LBrace ->
                IF i + 1 <= Len(toks) /\ toks[i + 1] = RBrace
                THEN Parsed(PyDict(<<>>), i + 2)
                ELSE ParseMembers(toks, i + 1, PyDict(<<>>))
           [] OTHER -> ParseFail

\* The rest of an array: a value, then "," and more, or "]".
ParseElements(toks, i, acc) ==
    LET v == ParseValue(toks, i) IN
    IF ~v.ok \/ v.next > Len(toks) THEN ParseFail
    ELSE IF toks[v.next] = Comma
         THEN ParseElements(toks, v.next + 1, Append(acc, v.value))
    ELSE IF toks[v.next] = RBracket
         THEN Parsed(PyList(Append(acc, v.value)), v.next + 1)
    ELSE ParseFail

\* The rest of an object: "key" : value, then "," and more, or "}".
\* A repeated key keeps its last value.
ParseMembers(toks, i, acc) ==
    IF i + 1 > Len(toks) \/ toks[i].kind # "string" \/ toks[i + 1] # Colon
    THEN ParseFail
    ELSE LET v == ParseValue(toks, i + 2) IN
         IF ~v.ok \/ v.next > Len(toks) THEN ParseFail
         ELSE LET d == dict_setitem(acc, PyStr(toks[i].s), v.value) IN
              IF toks[v.next] = Comma
              THEN ParseMembers(toks, v.next + 1, d)
              ELSE IF toks[v.next] = RBrace
                   THEN Parsed(d, v.next + 1)
                   ELSE ParseFail

\* json.loads: the whole text is one JSON value, or JSONDecodeError.
json_loads(toks) ==
    LET r == ParseValue(toks, 1) IN
    IF r.ok /\ r.next = Len(toks) + 1
    THEN Returned(r.value)
    ELSE Raised("JSONDecodeError")

\* json.dumps of a scalar.
DumpScalar(v) ==
    CASE v.type = "str" -> StrTok(v.s)
      [] v.type = "int" -> NumTok(v.n)
      [] OTHER -> NullTok

\* json.dumps turns an int key into the string of its decimal digits.
DumpKey(key) ==
    IF key.type = "int" THEN StrTok(ToString(key.n)) ELSE StrTok(key.s)

RECURSIVE DumpMembers(_, _)
DumpMembers(items, i) ==
    IF i > Len(items) THEN <<>>
    ELSE (IF i > 1 THEN <<Comma>> ELSE <<>>)
         \o <<DumpKey(items[i].key), Colon, DumpScalar(items[i].value)>>
         \o DumpMembers(items, i + 1)

\* json.dumps of a dict of scalars, items in the dict's order.
json_dumps(d) == <<LBrace>> \o DumpMembers(d.items, 1) \o <<RBrace>>

(* ------------------------- the vector store --------------------------- *)

\* The i-th document of a persisted store: its text and its metadata.
Document(i) ==
    [page_content |-> "passage " \o ToString(i), metadata |-> [source |-> i]]

\* Model directory n holds, under faiss_vector_store, a store of n documents.
ModelDirs == 0..MaxDocs

\* os.path.join(model_dir, 'faiss_vector_store')
path_join(model_dir, name) == <<model_dir, name>>

\* FAISS.load_local: the persisted documents bound to the embedding function.
FAISS_load_local(vs_path, embeddings) ==
    [embedding_function |-> embeddings,
     docstore |-> IF vs_path[2] = "faiss_vector_store"
                  THEN [i \in 1..vs_path[1] |-> Document(i)]
                  ELSE <<>>]

model_fn(model_dir) ==
    LET hf == [model_name |-> "BAAI/bge-small-en-v1.5",
               model_kwargs |-> [device |-> "cpu"],
               encode_kwargs |-> [normalize_embeddings |-> FALSE],
               query_instruction |->
                   "Represent this sentence for searching relevant passages: "]
        vs_path == path_join(model_dir, "faiss_vector_store")
        vs == FAISS_load_local(vs_path, hf)
    IN  vs

\* The store's documents, closest match to the query first.  Two queries
\* rank the same store differently.
Ranked(vs, query) ==
    LET n == Len(vs.docstore) IN
    IF query = "example query"
    THEN vs.docstore
    ELSE [i \in 1..n |-> vs.docstore[n + 1 - i]]

\* vs.similarity_search(query, k): the k closest documents in rank order,
\* all of them when the store holds fewer; it reads the store and leaves it
\* as it was.  A query that is no str, or a k that is no int, is rejected.
similarity_search(vs, query, k) ==
    IF query.type # "str" THEN [raised |-> "AttributeError", ret |-> <<>>, vs |-> vs]
    ELSE IF k.type # "int" THEN [raised |-> "TypeError", ret |-> <<>>, vs |-> vs]
    ELSE [raised |-> "none",
          ret |-> SubSeq(Ranked(vs, query.s), 1, Min(k.n, Len(vs.docstore))),
          vs |-> vs]

(* ----------------------------- the hooks ------------------------------ *)

ContentTypes == {"application/json", "text/plain"}

\* input_fn without the content-type test.
input_fn_any_content_type(request_body, request_content_type) ==
    json_loads(request_body)

\* input_fn passing on the raw body when it does not parse.
input_fn_keeps_raw_body(request_body, request_content_type) ==
    IF request_content_type = "application/json"
    THEN IF json_loads(request_body).raised = "none"
         THEN json_loads(request_body)
         ELSE Returned(PyStr("raw body"))
    ELSE Raised("ValueError")

input_fn(request_body, request_content_type) ==
    IF request_content_type = "application/json"
    THEN json_loads(request_body)
    ELSE Raised("ValueError")

\* predict_fn adding the query text to the store before it searches.
predict_fn_indexes_query(input_data, model) ==
    LET vs == model
        text == py_getitem(input_data, PyStr("text"))
        k == py_getitem(input_data, PyStr("k"))
    IN  IF text.raised # "none"
        THEN [raised |-> text.raised, ret |-> <<>>, vs |-> vs, calls |-> <<>>]
        ELSE IF k.raised # "none"
        THEN [raised |-> k.raised, ret |-> <<>>, vs |-> vs, calls |-> <<>>]
        ELSE LET results == similarity_search(vs, text.ret, k.ret) IN
             [raised |-> results.raised, ret |-> results.ret,
              vs |-> [vs EXCEPT !.docstore = Append(@, Document(Len(@) + 1))],
              calls |-> <<"similarity_search">>]

\* predict_fn checking the types of text and k itself before it searches.
predict_fn_validates(input_data, model) ==
    LET vs == model
        text == py_getitem(input_data, PyStr("text"))
        k == py_getitem(input_data, PyStr("k"))
    IN  IF text.raised # "none"
        THEN [raised |-> text.raised, ret |-> <<>>, vs |-> vs, calls |-> <<>>]
        ELSE IF k.raised # "none"
        THEN [raised |-> k.raised, ret |-> <<>>, vs |-> vs, calls |-> <<>>]
        ELSE IF text.ret.type # "str" \/ k.ret.type # "int"
        THEN [raised |-> "TypeError", ret |-> <<>>, vs |-> vs, calls |-> <<>>]
        ELSE LET results == similarity_search(vs, text.ret, k.ret) IN
             [raised |-> results.raised, ret |-> results.ret,
              vs |-> results.vs, calls |-> <<"similarity_search">>]

\* predict_fn taking a k of 0 as no k given and searching with 4.
predict_fn_default_k(input_data, model) ==
    LET vs == model
        text == py_getitem(input_data, PyStr("text"))
        k == py_getitem(input_data, PyStr("k"))
    IN  IF text.raised # "none"
        THEN [raised |-> text.raised, ret |-> <<>>, vs |-> vs, calls |-> <<>>]
        ELSE IF k.raised # "none"
        THEN [raised |-> k.raised, ret |-> <<>>, vs |-> vs, calls |-> <<>>]
        ELSE LET results == similarity_search(vs, text.ret,
                                IF k.ret = PyInt(0) THEN PyInt(4) ELSE k.ret) IN
             [raised |-> results.raised, ret |-> results.ret,
              vs |-> results.vs, calls |-> <<"similarity_search">>]

\* predict_fn refusing a k above the number of documents in the store.
predict_fn_bounded_k(input_data, model) ==
    LET vs == model
        text == py_getitem(input_data, PyStr("text"))
        k == py_getitem(input_data, PyStr("k"))
    IN  IF text.raised # "none"
        THEN [raised |-> text.raised, ret |-> <<>>, vs |-> vs, calls |-> <<>>]
        ELSE IF k.raised # "none"
        THEN [raised |-> k.raised, ret |-> <<>>, vs |-> vs, calls |-> <<>>]
        ELSE IF k.ret.type = "int" /\ k.ret.n > Len(vs.docstore)
        THEN [raised |-> "ValueError", ret |-> <<>>, vs |-> vs, calls |-> <<>>]
        ELSE LET results == similarity_search(vs, text.ret, k.ret) IN
             [raised |-> results.raised, ret |-> results.ret,
              vs |-> results.vs, calls |-> <<"similarity_search">>]

\* The result names the calls predict_fn made and the store as the call
\* left it, next to what it returned or raised.
predict_fn(input_data, model) ==
    LET vs == model
        text == py_getitem(input_data, PyStr("text"))
        k == py_getitem(input_data, PyStr("k"))
    IN  IF text.raised # "none"
        THEN [raised |-> text.raised, ret |-> <<>>, vs |-> vs, calls |-> <<>>]
        ELSE IF k.raised # "none"
        THEN [raised |-> k.raised, ret |-> <<>>, vs |-> vs, calls |-> <<>>]
        ELSE LET results == similarity_search(vs, text.ret, k.ret) IN
             [raised |-> results.raised, ret |-> results.ret,
              vs |-> results.vs, calls |-> <<"similarity_search">>]

\* for ind in range(len(predictions)): out_dict[ind] = predictions[ind].page_content
RECURSIVE FillOutDict(_, _, _)
FillOutDict(out_dict, predictions, ind) ==
    IF ind >= Len(predictions) THEN out_dict
    ELSE FillOutDict(dict_setitem(out_dict, PyInt(ind),
                                  PyStr(predictions[ind + 1].page_content)),
                     predictions, ind + 1)

\* output_fn with the ranks counted from one.
output_fn_ranks_from_one(predictions, content_type) ==
    LET n == Len(predictions)
        out_dict == PyDict([i \in 1..n |->
                              [key |-> PyInt(i),
                               value |-> PyStr(predictions[i].page_content)]])
    IN  json_dumps(out_dict)

\* output_fn reading the predictions from the last to the first.
output_fn_reversed(predictions, content_type) ==
    LET n == Len(predictions)
        out_dict == PyDict([i \in 1..n |->
                              [key |-> PyInt(i - 1),
                               value |-> PyStr(predictions[n + 1 - i].page_content)]])
    IN  json_dumps(out_dict)

output_fn(predictions, content_type) ==
    LET n == Len(predictions)
        \* dict(zip(range(n), range(n)))
        out_dict == PyDict([i \in 1..n |->
                              [key |-> PyInt(i - 1), value |-> PyInt(i - 1)]])
    IN  json_dumps(FillOutDict(out_dict, predictions, 0))

(* ---------------------------- the requests ---------------------------- *)

QueryBody(text, k) ==
    <<LBrace, StrTok("text"), Colon, StrTok(text), Comma,
      StrTok("k"), Colon, NumTok(k), RBrace>>

\* Text that is no JSON: an unquoted key with no value, an unclosed object.
NotJsonBodies ==
    << <<LBrace, BareTok("text"), Colon>>,
       <<LBrace, StrTok("text"), Colon, StrTok("example query")>> >>

\* JSON that is no object.
NotObjectBodies ==
    << <<LBracket, NumTok(1), RBracket>> >>

\* Objects that lack text, k or both.
MissingFieldBodies ==
    << <<LBrace, RBrace>>,
       <<LBrace, StrTok("text"), Colon, StrTok("example query"), RBrace>>,
       <<LBrace, StrTok("k"), Colon, NumTok(1), RBrace>> >>

\* Objects that hold both fields, one of the wrong type.
WrongTypeBodies ==
    << <<LBrace, StrTok("text"), Colon, NumTok(5), Comma,
         StrTok("k"), Colon, NumTok(1), RBrace>>,
       <<LBrace, StrTok("text"), Colon, StrTok("example query"), Comma,
         StrTok("k"), Colon, StrTok("two"), RBrace>> >>

\* The request bodies the clients send: the above, the query
\* "example query" with every k in 0..MaxDocs+1, and a second query.
Bodies ==
    NotJsonBodies \o NotObjectBodies \o MissingFieldBodies \o WrongTypeBodies
    \o [i \in 1..(MaxDocs + 2) |-> QueryBody("example query", i - 1)]
    \o << QueryBody("another query", 2) >>

VARIABLES
    model,  \* the vector store model_fn returned, shared by all requests
    req     \* per request: its inputs, its stage, each hook's result

vars == <<model, req>>

NoRequest ==
    [status |-> "idle", request_body |-> <<>>, request_content_type |-> "",
     input_data |-> PyNone, predictions |-> <<>>, response |-> <<>>,
     raised |-> "none", calls |-> <<>>]

Init ==
    /\ \E model_dir \in ModelDirs : model = model_fn(model_dir)
    /\ req = [r \in Requests |-> NoRequest]

\* The server receives a request and calls input_fn on its body.
input_step(r, request_body, request_content_type) ==
    /\ req[r].status = "idle"
    /\ LET res == input_fn(request_body, request_content_type) IN
       req' = [req EXCEPT ![r] =
                 [@ EXCEPT !.request_body = request_body,
                           !.request_content_type = request_content_type,
                           !.calls = <<"input_fn">>,
                           !.status = IF res.raised = "none"
                                      THEN "decoded" ELSE "failed",
                           !.raised = res.raised,
                           !.input_data = res.ret]]
    /\ UNCHANGED model

\* predict_step answering with no results when predict_fn raises.
predict_step_suppresses_error(r) ==
    /\ req[r].status = "decoded"
    /\ LET res == predict_fn(req[r].input_data, model) IN
       /\ req' = [req EXCEPT ![r] =
                    [@ EXCEPT !.calls = @ \o <<"predict_fn">> \o res.calls,
                              !.status = "predicted",
                              !.predictions = res.ret]]
       /\ model' = res.vs

\* predict_step taking its input from whichever request was decoded, as a
\* module-level variable written by input_fn would hand it over.
predict_step_shared_input(r) ==
    /\ req[r].status = "decoded"
    /\ \E s \in Requests :
         /\ req[s].status = "decoded"
         /\ LET res == predict_fn(req[s].input_data, model) IN
            /\ req' = [req EXCEPT ![r] =
                         [@ EXCEPT !.calls = @ \o <<"predict_fn">> \o res.calls,
                                   !.status = IF res.raised = "none"
                                              THEN "predicted" ELSE "failed",
                                   !.raised = res.raised,
                                   !.predictions = res.ret]]
            /\ model' = res.vs

\* The server calls predict_fn on the return value of input_fn.
predict_step(r) ==
    /\ req[r].status = "decoded"
    /\ LET res == predict_fn(req[r].input_data, model) IN
       /\ req' = [req EXCEPT ![r] =
                    [@ EXCEPT !.calls = @ \o <<"predict_fn">> \o res.calls,
                              !.status = IF res.raised = "none"
                                         THEN "predicted" ELSE "failed",
                              !.raised = res.raised,
                              !.predictions = res.ret]]
       /\ model' = res.vs

\* The server calls output_fn on the return value of predict_fn; what
\* output_fn returns is the response.
output_step(r) ==
    /\ req[r].status = "predicted"
    /\ \E accept \in ContentTypes :
         req' = [req EXCEPT ![r] =
                   [@ EXCEPT !.calls = @ \o <<"output_fn">>,
                             !.status = "done",
                             !.response = output_fn(req[r].predictions, accept)]]
    /\ UNCHANGED model

Next ==
    \E r \in Requests :
        \/ \E b \in 1..Len(Bodies), ct \in ContentTypes :
             input_step(r, Bodies[b], ct)
        \/ predict_step(r)
        \/ output_step(r)

Spec == Init /\ [][Next]_vars

(* ------------------------- reading the state -------------------------- *)

Seq2Set(q) == {q[i] : i \in 1..Len(q)}

QueryTexts == {"example query", "another query"}
KValues == 0..(MaxDocs + 1)

IndexSize == Len(model.docstore)

Sent(r) == req[r].status # "idle"
SentJson(r) == Sent(r) /\ req[r].request_content_type = "application/json"

\* Request r is a JSON request whose body is the query {text, k}.
IsQuery(r, text, k) == SentJson(r) /\ req[r].request_body = QueryBody(text, k)

\* The decimal digits of a rank, as a JSON key shows them.
Decimal(i) == <<"0", "1", "2", "3", "4", "5", "6", "7", "8", "9">>[i + 1]

EmptyObjectText == <<LBrace, RBrace>>

\* The members of the JSON object a response text denotes.
ResponseItems(r) == json_loads(req[r].response).ret.items

IsJsonObject(text) ==
    LET v == json_loads(text) IN v.raised = "none" /\ v.ret.type = "dict"

\* The response of r is a JSON object whose keys are "0" .. "n-1" in order.
HasKeysZeroTo(r, n) ==
    /\ IsJsonObject(req[r].response)
    /\ Len(ResponseItems(r)) = n
    /\ \A i \in 1..n : ResponseItems(r)[i].key = PyStr(Decimal(i - 1))

(* ------------------------------- claims ------------------------------- *)

\* C1: a JSON request whose body is {text, k} with a string text and an
\* integer 0 <= k <= index size does not fail, and its response is a JSON
\* object with exactly k keys, the strings "0" .. "k-1".
C1_ExactlyKKeys ==
    \A r \in Requests : \A text \in QueryTexts, k \in KValues :
        (IsQuery(r, text, k) /\ k <= IndexSize) =>
            /\ req[r].status # "failed"
            /\ req[r].status = "done" => HasKeysZeroTo(r, k)

C1_Witness ==
    \E r \in Requests : \E text \in QueryTexts, k \in KValues :
        /\ IsQuery(r, text, k) /\ k >= 2 /\ k <= IndexSize
        /\ req[r].status = "done"

\* C2: the response maps key "i" to the page content of the result at rank
\* i, keys in increasing rank order, one per result the store returned (none
\* dropped, none moved), and holds nothing else of a result.
C2_RankToPageContent ==
    \A r \in Requests :
        req[r].status = "done" =>
            /\ IsJsonObject(req[r].response)
            /\ Len(ResponseItems(r)) = Len(req[r].predictions)
            /\ \A i \in 1..Len(req[r].predictions) :
                 ResponseItems(r)[i] =
                     [key |-> PyStr(Decimal(i - 1)),
                      value |-> PyStr(req[r].predictions[i].page_content)]
            /\ \A text \in QueryTexts, k \in KValues :
                 IsQuery(r, text, k) =>
                     req[r].predictions =
                         similarity_search(model, PyStr(text), PyInt(k)).ret

C2_Witness ==
    \E r \in Requests :
        /\ IsQuery(r, "another query", 2)
        /\ req[r].status = "done"
        /\ IndexSize = 2
        /\ req[r].response =
             <<LBrace, StrTok("0"), Colon, StrTok("passage 2"), Comma,
               StrTok("1"), Colon, StrTok("passage 1"), RBrace>>

\* C3: a request whose content type is not application/json fails in
\* input_fn with the content-type error, whatever its body; neither
\* predict_fn nor similarity_search is called and no response is encoded.
C3_NonJsonRejected ==
    \A r \in Requests :
        (Sent(r) /\ req[r].request_content_type # "application/json") =>
            /\ req[r].status = "failed"
            /\ req[r].raised = "ValueError"
            /\ req[r].calls = <<"input_fn">>
            /\ req[r].response = <<>>

C3_Witness ==
    \E r \in Requests :
        /\ req[r].request_content_type = "text/plain"
        /\ req[r].request_body = QueryBody("example query", 2)
        /\ req[r].status = "failed"

\* C4: a JSON request whose body is no valid JSON fails in input_fn with a
\* parse error; predict_fn is never called for it.
C4_MalformedFailsAtDecode ==
    \A r \in Requests :
        (SentJson(r) /\ req[r].request_body \in Seq2Set(NotJsonBodies)) =>
            /\ req[r].status = "failed"
            /\ req[r].raised = "JSONDecodeError"
            /\ req[r].calls = <<"input_fn">>
            /\ req[r].response = <<>>

C4_Witness ==
    \E r \in Requests :
        /\ SentJson(r)
        /\ req[r].request_body = <<LBrace, BareTok("text"), Colon>>
        /\ req[r].status = "failed"

\* C5: no step of any request, successful or failing, changes the loaded
\* vector store: its documents and its embedding function stay as model_fn
\* returned them.
C5_StoreNeverModified == [][model' = model]_vars

C5_Witness ==
    \E r, s \in Requests :
        /\ req[r].status = "done" /\ Len(req[r].predictions) >= 1
        /\ req[s].status = "failed" /\ Len(req[s].calls) >= 2

\* JSON bodies that are no query: a field is missing, or has the wrong type.
UnvalidatedBodies ==
    Seq2Set(NotObjectBodies) \cup Seq2Set(MissingFieldBodies)
        \cup Seq2Set(WrongTypeBodies)

\* C6, as stated: for a JSON request whose body is valid JSON without a
\* proper text or k, input_fn returns the decoded value as it is, and the
\* request then fails in predict_fn with similarity_search called and
\* raising the failure.
C6_FailureRaisedByDelegate ==
    \A r \in Requests :
        (SentJson(r) /\ req[r].request_body \in
             Seq2Set(MissingFieldBodies) \cup Seq2Set(WrongTypeBodies)) =>
            /\ req[r].status \in {"decoded", "failed"}
            /\ req[r].input_data = json_loads(req[r].request_body).ret
            /\ req[r].status = "failed" =>
                 /\ req[r].raised # "none"
                 /\ req[r].calls =
                      <<"input_fn", "predict_fn", "similarity_search">>

\* C6, amended: input_fn returns the decoded value as it is and the request
\* fails in predict_fn with no response.  When the decoded value lacks text
\* or k (or is no object) the failure is raised by predict_fn's own lookup
\* and similarity_search is not called; only when both fields are present,
\* with a wrong type, is similarity_search called and the failure its own.
C6_FailureAtExecutor ==
    \A r \in Requests :
        (SentJson(r) /\ req[r].request_body \in UnvalidatedBodies) =>
            /\ req[r].status \in {"decoded", "failed"}
            /\ req[r].input_data = json_loads(req[r].request_body).ret
            /\ req[r].status = "failed" =>
                 /\ req[r].response = <<>>
                 /\ IF req[r].request_body \in Seq2Set(WrongTypeBodies)
                    THEN /\ req[r].calls =
                              <<"input_fn", "predict_fn", "similarity_search">>
                         /\ req[r].raised \in {"AttributeError", "TypeError"}
                    ELSE /\ req[r].calls = <<"input_fn", "predict_fn">>
                         /\ req[r].raised =
                              IF req[r].request_body \in Seq2Set(NotObjectBodies)
                              THEN "TypeError" ELSE "KeyError"

C6_Witness ==
    \E r, s \in Requests :
        /\ SentJson(r) /\ req[r].request_body = MissingFieldBodies[2]
        /\ req[r].status = "failed"
        /\ SentJson(s) /\ req[s].request_body = WrongTypeBodies[2]
        /\ req[s].status = "failed"

\* C7: a request ends with a response, after input_fn, predict_fn (with its
\* search) and output_fn each ran once in that order and none raised, or
\* with the error of the first hook that raised and no response; a hook is
\* never called again or after a failure, and the error is the hook's own.
C7_ResponseOrError ==
    \A r \in Requests :
        LET q == req[r]
            decoded == input_fn(q.request_body, q.request_content_type)
            searched == predict_fn(q.input_data, model)
        IN  /\ q.status \in {"idle", "decoded", "predicted"} =>
                 q.raised = "none" /\ q.response = <<>>
            /\ q.status = "done" =>
                 /\ q.calls = <<"input_fn", "predict_fn",
                                "similarity_search", "output_fn">>
                 /\ q.raised = "none" /\ q.response # <<>>
                 /\ decoded.raised = "none" /\ searched.raised = "none"
            /\ q.status = "failed" =>
                 /\ q.raised # "none" /\ q.response = <<>>
                 /\ \/ q.calls = <<"input_fn">> /\ q.raised = decoded.raised
                    \/ /\ q.calls = <<"input_fn", "predict_fn">> \o searched.calls
                       /\ decoded.raised = "none"
                       /\ q.raised = searched.raised

C7_Witness ==
    \E r, s \in Requests :
        /\ req[r].status = "done"
        /\ req[s].status = "failed"
        /\ req[s].calls = <<"input_fn", "predict_fn", "similarity_search">>

\* C8: a query with k = 0 gets the empty JSON object as its response, and
\* output_fn of the empty result sequence is {} for any content_type.
C8_EmptyObject ==
    /\ \A r \in Requests : \A text \in QueryTexts :
         IsQuery(r, text, 0) =>
             /\ req[r].status # "failed"
             /\ req[r].status = "done" => req[r].response = EmptyObjectText
    /\ \A content_type \in ContentTypes \cup {"application/xml", ""} :
         output_fn(<<>>, content_type) = EmptyObjectText

C8_Witness ==
    \E r \in Requests : \E text \in QueryTexts :
        IsQuery(r, text, 0) /\ req[r].status = "done" /\ IndexSize >= 1

\* C9: a query whose k exceeds the number of documents in the store does
\* not fail, and its response holds every document of the store under the
\* keys "0" .. "size-1".
C9_KBeyondIndexSize ==
    \A r \in Requests : \A text \in QueryTexts, k \in KValues :
        (IsQuery(r, text, k) /\ k > IndexSize) =>
            /\ req[r].status # "failed"
            /\ req[r].status = "done" =>
                 /\ HasKeysZeroTo(r, IndexSize)
                 /\ {it.value : it \in Seq2Set(ResponseItems(r))} =
                      {PyStr(d.page_content) : d \in Seq2Set(model.docstore)}

C9_Witness ==
    \E r \in Requests : \E text \in QueryTexts, k \in KValues :
        /\ IsQuery(r, text, k) /\ k > IndexSize /\ IndexSize >= 2
        /\ req[r].status = "done"

\* What a request with this body and content type comes to when it is the
\* only request the server runs against the store.
AloneOutcome(request_body, request_content_type, vs) ==
    LET decoded == input_fn(request_body, request_content_type) IN
    IF decoded.raised # "none"
    THEN [status |-> "failed", raised |-> decoded.raised, response |-> <<>>]
    ELSE LET searched == predict_fn(decoded.ret, vs) IN
         IF searched.raised # "none"
         THEN [status |-> "failed", raised |-> searched.raised, response |-> <<>>]
         ELSE [status |-> "done", raised |-> "none",
               response |-> output_fn(searched.ret, request_content_type)]

\* C10: under any interleaving of the requests' steps, each finished request
\* has the outcome it would have alone, fixed by its body, its content type
\* and the loaded store; a step of one request changes no other request.
C10_RequestsIndependent ==
    /\ [](\A r \in Requests :
            req[r].status \in {"done", "failed"} =>
                [status |-> req[r].status, raised |-> req[r].raised,
                 response |-> req[r].response]
                  = AloneOutcome(req[r].request_body,
                                 req[r].request_content_type, model))
    /\ [][\A r \in Requests :
            req'[r] # req[r] => \A s \in Requests \ {r} : req'[s] = req[s]]_vars

C10_Witness ==
    \E r, s \in Requests :
        /\ IsQuery(r, "example query", 1) /\ req[r].status = "predicted"
        /\ IsQuery(s, "another query", 2) /\ req[s].status = "done"
        /\ IndexSize = 2

=============================================================================
